---- MODULE Spec2Model ----
(***************************************************************************)
(* Model of src/src/neovim.rs (page): the connection lifecycle             *)
(* (connection::open / session_with_new_neovim_process / close), the       *)
(* notification bridge (notifications::subscribe + NotificationReceiver)   *)
(* and the instance registry (NeovimActions::mark_buffer_as_instance /     *)
(* find_instance_buffer).                                                  *)
(*                                                                         *)
(* Three specifications share the variables:                               *)
(*   SpecConn      the main thread establishing and closing the session    *)
(*   SpecBridge    the listener thread, the bounded queue and its consumer *)
(*   SpecRegistry  the registry operations against the editor's buffers    *)
(***************************************************************************)
EXTENDS Integers, Sequences, FiniteSets, TLC

VARIABLES
    \* ---- connection (main thread) ----
    address,            \* cli_ctx.opt.address: "None" or "Some"
    print_protection,   \* cli_ctx.print_protection
    pc,                 \* position of the main thread in open()/close()
    i,                  \* the retry counter `i` of session_with_new_neovim_process
    nvim_proc,          \* NeovimConnection.nvim_proc: "None" or "Some"
    child,              \* the child nvim process: "none", "running", "exited"
    trace,              \* the external effects of open()/close(), in order
    \* ---- notification bridge (listener thread + consumer) ----
    page_id,            \* cli_ctx.page_id, copied into NotificationReceiver.page_id
    queue,              \* the buffer of mpsc::sync_channel(16)
    rx_alive,           \* the Receiver end has not been dropped
    listener,           \* "idle", "blocked" (inside tx.send), "panicked"
    pending,            \* the event a blocked send is holding (<<>> when none)
    notification,       \* handle_notify's last `notification` argument
    args,               \* handle_notify's last `args` argument
    outcome,            \* how the last handle_notify call ended
    accepted,           \* history: events that passed the filters, in order
    received,           \* history: events the consumer got from rx, in order
    blocked_at,         \* history: which accepted events (by position) had to wait in send
    irregular,          \* how many notifications other than ":Page <n>" were sent
    \* ---- instance registry (editor buffers) ----
    bufs,               \* nvim.list_bufs(): open buffer numbers, ascending
    next_buf,           \* next buffer number the editor hands out
    tag,                \* b:page_instance of each buffer
    faulty,             \* buffers whose get_var fails with an unrecognised error
    key_not_found,      \* how this editor version describes a missing key
    reg_pc,             \* main thread in the registry: "ready" or "panicked"
    rt,                 \* history: the registry operations of interest just done
    errlog,             \* log::error! targets written by the last registry call
    op_err,             \* the request of the last registry call that the editor failed
    \* ---- focus (editor windows) ----
    wins,               \* nvim.list_wins(): the buffer each window displays
    cur_win,            \* nvim.get_current_win()
    focus,              \* history: the last focus_instance_buffer call
    \* ---- buffer title ----
    t_pc,               \* update_buffer_title: "idle", "renaming", "done"
    attempt_nr,         \* the `attempt_nr` of the next candidate
    first_free,         \* smallest suffix number whose name no buffer has
    t_trace,            \* the set_name calls made: candidate number and result
    buf_name,           \* suffix number the buffer is named with, -1 if not renamed
    t_errors,           \* log::error! lines written by update_buffer_title
    redraws,            \* "redraw!" commands sent
    \* ---- child process arguments ----
    opt_config,         \* opt.config: None or Some(path)
    opt_arguments,      \* opt.arguments: None or Some(string)
    xdg_config_home,    \* std::env::var("XDG_CONFIG_HOME").ok()
    home_dir,           \* std::env::var("HOME").ok()
    fs,                 \* what the file system holds at each candidate path
    cfg_pc,             \* spawn_child_nvim_process: "start" or "spawned"
    nvim_args           \* the argument vector handed to process::Command

connVars == <<address, print_protection, pc, i, nvim_proc, child, trace>>
bridgeVars == <<page_id, queue, rx_alive, listener, pending, notification, args,
                outcome, accepted, received, blocked_at, irregular>>
registryVars == <<bufs, next_buf, tag, faulty, key_not_found, reg_pc, rt, errlog,
                  op_err>>
focusVars == <<wins, cur_win, focus>>
titleVars == <<t_pc, attempt_nr, first_free, t_trace, buf_name, t_errors, redraws>>
configVars == <<opt_config, opt_arguments, xdg_config_home, home_dir, fs, cfg_pc,
                nvim_args>>
vars == <<connVars, bridgeVars, registryVars, focusVars, titleVars, configVars>>

\* std::io::ErrorKind::NotFound and one representative of every other kind
ErrorKinds == {"NotFound", "ConnectionRefused"}
ConnectResults == {"Ok"} \cup ErrorKinds

\* `if i == 100` in the retry loop
RetryCap == 100

(***************************************************************************)
(* Connection lifecycle: connection::open, session_with_new_neovim_process, *)
(* print_redirect_protection, spawn_child_nvim_process, connection::close  *)
(***************************************************************************)

\* One external effect of the main thread; res is "-" unless ev = "connect"
Ev(e) == [ev |-> e, res |-> "-"]
Conn(r) == [ev |-> "connect", res |-> r]

\* The results of the session_at_address calls made so far, in order
Results == 
    LET cs == SelectSeq(trace, LAMBDA e : e.ev = "connect")
    IN  [k \in DOMAIN cs |-> cs[k].res]

Attempts == Len(Results)
Sleeps == Len(SelectSeq(trace, LAMBDA e : e.ev = "sleep"))
Spawns == Len(SelectSeq(trace, LAMBDA e : e.ev = "spawn"))

\* `if let std::io::ErrorKind::NotFound = e.kind()`
TolerableErrorAny(kind) == kind \in ErrorKinds
TolerableError(kind) == kind = "NotFound"

\* `if i == 100 { break e }`
AttemptsExhaustedEarly(n) == n = 10
AttemptsExhausted(n) == n = RetryCap

\* open(), address supplied, with a NotFound failure retried instead of fatal
OpenAttachRetrying ==
    /\ pc = "open"
    /\ address = "Some"
    /\ \E r \in ConnectResults :
        /\ trace' = Append(trace, Conn(r))
        /\ pc' = IF r = "Ok" THEN "connected"
                 ELSE IF r = "NotFound" THEN "open" ELSE "panicked"
    /\ nvim_proc' = "None"
    /\ UNCHANGED <<address, print_protection, i, child>>
    /\ UNCHANGED <<bridgeVars, registryVars, focusVars, titleVars, configVars>>

\* open(), address supplied: one session_at_address(addr).expect(..), then
\* the connection is built with nvim_proc = None
OpenAttach ==
    /\ pc = "open"
    /\ address = "Some"
    /\ \E r \in ConnectResults :
        /\ trace' = Append(trace, Conn(r))
        /\ pc' = IF r = "Ok" THEN "connected" ELSE "panicked"
    /\ nvim_proc' = "None"
    /\ UNCHANGED <<address, print_protection, i, child>>
    /\ UNCHANGED <<bridgeVars, registryVars, focusVars, titleVars, configVars>>

\* session_with_new_neovim_process spawning the child first and creating and
\* printing the protection directory only afterwards
OpenSpawnProtectionLate ==
    /\ pc = "open"
    /\ address = "None"
    /\ \E mk \in (IF print_protection THEN BOOLEAN ELSE {TRUE}), sp \in BOOLEAN :
        IF ~sp
        THEN /\ trace' = Append(trace, Ev("spawn_failed"))
             /\ pc' = "panicked"
             /\ UNCHANGED <<i, child>>
        ELSE /\ child' = "running"
             /\ i' = 0
             /\ IF print_protection /\ ~mk
                THEN /\ trace' = trace \o <<Ev("spawn"), Ev("mkdir_failed")>>
                     /\ pc' = "panicked"
                ELSE /\ trace' = trace \o <<Ev("spawn")>> \o
                                  (IF print_protection
                                   THEN <<Ev("mkdir"), Ev("print")>> ELSE <<>>)
                     /\ pc' = "connecting"
    /\ UNCHANGED <<address, print_protection, nvim_proc>>
    /\ UNCHANGED <<bridgeVars, registryVars, focusVars, titleVars, configVars>>

\* open(), no address: session_with_new_neovim_process up to `let mut i = 0`.
\* mk: create_dir_all succeeds; sp: the arguments tokenize and nvim spawns.
OpenSpawn ==
    /\ pc = "open"
    /\ address = "None"
    /\ \E mk \in (IF print_protection THEN BOOLEAN ELSE {TRUE}), sp \in BOOLEAN :
        IF print_protection /\ ~mk
        THEN /\ trace' = Append(trace, Ev("mkdir_failed"))
             /\ pc' = "panicked"
             /\ UNCHANGED <<i, child>>
        ELSE LET t1 == IF print_protection
                       THEN trace \o <<Ev("mkdir"), Ev("print")>>
                       ELSE trace
             IN  IF sp
                 THEN /\ trace' = Append(t1, Ev("spawn"))
                      /\ child' = "running"
                      /\ i' = 0
                      /\ pc' = "connecting"
                 ELSE /\ trace' = Append(t1, Ev("spawn_failed"))
                      /\ pc' = "panicked"
                      /\ UNCHANGED <<i, child>>
    /\ UNCHANGED <<address, print_protection, nvim_proc>>
    /\ UNCHANGED <<bridgeVars, registryVars, focusVars, titleVars, configVars>>

\* The loop iteration returning (session, None) on Ok: the child is dropped
ConnectLoopDroppingChild ==
    /\ pc = "connecting"
    /\ \E r \in ConnectResults :
        IF r = "Ok"
        THEN /\ trace' = Append(trace, Conn(r))
             /\ pc' = "connected"
             /\ nvim_proc' = "None"
             /\ i' = i
        ELSE IF TolerableError(r) /\ ~AttemptsExhausted(i)
        THEN /\ trace' = trace \o <<Conn(r), Ev("sleep")>>
             /\ i' = i + 1
             /\ UNCHANGED <<pc, nvim_proc>>
        ELSE /\ trace' = Append(trace, Conn(r))
             /\ pc' = "panicked"
             /\ UNCHANGED <<i, nvim_proc>>
    /\ UNCHANGED <<address, print_protection, child>>
    /\ UNCHANGED <<bridgeVars, registryVars, focusVars, titleVars, configVars>>

\* One iteration of the `loop` of session_with_new_neovim_process; on Ok the
\* function returns (session, Some(nvim_proc)) and open() builds the connection
ConnectLoop ==
    /\ pc = "connecting"
    /\ \E r \in ConnectResults :
        IF r = "Ok"
        THEN /\ trace' = Append(trace, Conn(r))
             /\ pc' = "connected"
             /\ nvim_proc' = "Some"
             /\ i' = i
        ELSE IF TolerableError(r) /\ ~AttemptsExhausted(i)
        THEN /\ trace' = trace \o <<Conn(r), Ev("sleep")>>
             /\ i' = i + 1
             /\ UNCHANGED <<pc, nvim_proc>>
        ELSE /\ trace' = Append(trace, Conn(r))
             /\ pc' = "panicked"
             /\ UNCHANGED <<i, nvim_proc>>
    /\ UNCHANGED <<address, print_protection, child>>
    /\ UNCHANGED <<bridgeVars, registryVars, focusVars, titleVars, configVars>>

\* The child nvim process exits (the user quits it, or it dies)
ChildExit ==
    /\ child = "running"
    /\ child' = "exited"
    /\ UNCHANGED <<address, print_protection, pc, i, nvim_proc, trace>>
    /\ UNCHANGED <<bridgeVars, registryVars, focusVars, titleVars, configVars>>

\* close(): `if let Some(mut process) = nvim_proc { process.wait() }`, entered
Close ==
    /\ pc = "connected"
    /\ IF nvim_proc = "Some"
       THEN /\ pc' = "waiting"
            /\ trace' = Append(trace, Ev("wait"))
       ELSE /\ pc' = "closed"
            /\ trace' = trace
    /\ UNCHANGED <<address, print_protection, i, nvim_proc, child>>
    /\ UNCHANGED <<bridgeVars, registryVars, focusVars, titleVars, configVars>>

\* close() returning from the wait whether or not the child has exited
WaitReturnEarly ==
    /\ pc = "waiting"
    /\ pc' = "closed"
    /\ trace' = Append(trace, Ev("wait_returned"))
    /\ UNCHANGED <<address, print_protection, i, nvim_proc, child>>
    /\ UNCHANGED <<bridgeVars, registryVars, focusVars, titleVars, configVars>>

\* close(): process.wait() returns once the child has exited
WaitReturn ==
    /\ pc = "waiting"
    /\ child = "exited"
    /\ pc' = "closed"
    /\ trace' = Append(trace, Ev("wait_returned"))
    /\ UNCHANGED <<address, print_protection, i, nvim_proc, child>>
    /\ UNCHANGED <<bridgeVars, registryVars, focusVars, titleVars, configVars>>

NextConn ==
    \/ OpenAttach
    \/ OpenSpawn
    \/ ConnectLoop
    \/ ChildExit
    \/ Close
    \/ WaitReturn

(***************************************************************************)
(* Notification bridge: notifications::subscribe and                       *)
(* NotificationReceiver::handle_notify                                     *)
(***************************************************************************)

\* `mpsc::sync_channel(16)`
Capacity == 16

\* Longest run of accepted notifications, and the number of notifications
\* other than the regular ":Page <n>" request, that the editor sends
MaxNotifs == 18
MaxIrregular == 1

PageIds == {"page-A", "page-B"}

\* An Option<T>: <<>> is None, <<x>> is Some(x)
None == <<>>
Some(x) == <<x>>
IsSome(o) == Len(o) = 1

\* A msgpack Value: a string, an integer or nil
StrVal(x) == [t |-> "str", s |-> x, n |-> 0]
IntVal(k) == [t |-> "int", s |-> "", n |-> k]
Nil == [t |-> "nil", s |-> "", n |-> 0]

\* Value::as_str, Value::as_u64, Vec::get (0-based)
AsStr(v) == IF v.t = "str" THEN Some(v.s) ELSE None
AsU64(v) == IF v.t = "int" /\ v.n >= 0 THEN Some(v.n) ELSE None
Get(a, k) == IF k + 1 <= Len(a) THEN Some(a[k + 1]) ELSE None

\* `args.get(k).and_then(Value::as_str)`, `args.get(k).and_then(Value::as_u64)`
GetAsStr(a, k) == IF IsSome(Get(a, k)) THEN AsStr(Get(a, k)[1]) ELSE None
GetAsU64(a, k) == IF IsSome(Get(a, k)) THEN AsU64(Get(a, k)[1]) ELSE None

\* enum NotificationFromNeovim
FetchPart == [kind |-> "FetchPart", n |-> 0]
FetchLines(c) == [kind |-> "FetchLines", n |-> c]
BufferClosed == [kind |-> "BufferClosed", n |-> 0]

\* `page_id.map_or(true, |page_id| page_id != self.page_id)`
InvalidPageIdLax(a, own) ==
    LET id == GetAsStr(a, 0)
    IN  IsSome(id) /\ id[1] # own
InvalidPageId(a, own) ==
    LET id == GetAsStr(a, 0)
    IN  IF IsSome(id) THEN id[1] # own ELSE TRUE

\* `match notification { .. }`: Some(event), or None for `_ => return`
TranslateSwapped(name, a) ==
    IF name = "page_fetch_lines"
    THEN LET c == GetAsU64(a, 1)
         IN  IF IsSome(c) THEN Some(FetchPart) ELSE Some(FetchLines(0))
    ELSE IF name = "page_buffer_closed" THEN Some(BufferClosed)
    ELSE None
TranslateDroppingBadCount(name, a) ==
    IF name = "page_fetch_lines"
    THEN LET c == GetAsU64(a, 1)
         IN  IF IsSome(c) THEN Some(FetchLines(c[1]))
             ELSE IF IsSome(Get(a, 1)) THEN None ELSE Some(FetchPart)
    ELSE IF name = "page_buffer_closed" THEN Some(BufferClosed)
    ELSE None
Translate(name, a) ==
    IF name = "page_fetch_lines"
    THEN LET c == GetAsU64(a, 1)
         IN  IF IsSome(c) THEN Some(FetchLines(c[1])) ELSE Some(FetchPart)
    ELSE IF name = "page_buffer_closed" THEN Some(BufferClosed)
    ELSE None

\* The channel's buffer: a send appends, a receive takes the head
EnqueueFront(q, e) == <<e>> \o q
Enqueue(q, e) == Append(q, e)

\* Whether tx.send finds room in the buffer
HasRoomAlways(q) == TRUE
HasRoom(q) == Len(q) < Capacity

\* `self.tx.send(event).expect("cannot receive notification")`, entered with
\* an event that passed the filters
SendSwallowed(e) ==
    /\ accepted' = Append(accepted, e)
    /\ IF ~rx_alive
       THEN /\ outcome' = "send failed, ignored"
            /\ UNCHANGED <<queue, pending, listener, blocked_at>>
       ELSE IF HasRoom(queue)
       THEN /\ queue' = Enqueue(queue, e)
            /\ outcome' = "sent"
            /\ UNCHANGED <<pending, listener, blocked_at>>
       ELSE /\ listener' = "blocked"
            /\ pending' = Some(e)
            /\ outcome' = "blocked"
            /\ blocked_at' = blocked_at \cup {Len(accepted) + 1}
            /\ queue' = queue
Send(e) ==
    /\ accepted' = Append(accepted, e)
    /\ IF ~rx_alive
       THEN /\ listener' = "panicked"
            /\ outcome' = "cannot receive notification"
            /\ UNCHANGED <<queue, pending, blocked_at>>
       ELSE IF HasRoom(queue)
       THEN /\ queue' = Enqueue(queue, e)
            /\ outcome' = "sent"
            /\ UNCHANGED <<pending, listener, blocked_at>>
       ELSE /\ listener' = "blocked"
            /\ pending' = Some(e)
            /\ outcome' = "blocked"
            /\ blocked_at' = blocked_at \cup {Len(accepted) + 1}
            /\ queue' = queue

\* handle_notify(notification, args) on the listener thread
handle_notify(name, a) ==
    /\ listener = "idle"
    /\ notification' = name
    /\ args' = a
    /\ IF InvalidPageId(a, page_id)
       THEN /\ outcome' = "invalid page id"
            /\ UNCHANGED <<queue, pending, listener, accepted, blocked_at>>
       ELSE LET e == Translate(name, a)
            IN  IF IsSome(e)
                THEN Send(e[1])
                ELSE /\ outcome' = "unhandled notification"
                     /\ UNCHANGED <<queue, pending, listener, accepted, blocked_at>>
    /\ UNCHANGED <<page_id, rx_alive, received>>

\* The request the ":Page <n>" command sends: rpcnotify(0, 'page_fetch_lines',
\* page_id, n); n is the number of the request, so that requests differ
Regular == [name |-> "page_fetch_lines",
            args |-> <<StrVal(page_id), IntVal(Len(accepted) + 1)>>]

ForeignId == CHOOSE p \in PageIds : p # page_id

\* Every other notification the editor may send
Irregular ==
    [name : {"page_fetch_lines", "page_buffer_closed", "page_other"},
     args : { <<>>,
              <<StrVal(page_id)>>,
              <<StrVal(ForeignId)>>,
              <<IntVal(7)>>,
              <<Nil>>,
              <<StrVal(page_id), IntVal(-1)>>,
              <<StrVal(page_id), StrVal("3")>>,
              <<StrVal(page_id), Nil>>,
              <<StrVal(page_id), IntVal(0), IntVal(5)>>,
              <<StrVal(ForeignId), IntVal(2)>> }]

\* The editor sends a notification and the listener thread handles it
Notify ==
    /\ Len(accepted) < MaxNotifs
    /\ \/ /\ handle_notify(Regular.name, Regular.args)
          /\ irregular' = irregular
       \/ /\ irregular < MaxIrregular
          /\ irregular' = irregular + 1
          /\ \E m \in Irregular : handle_notify(m.name, m.args)
    /\ UNCHANGED <<connVars, registryVars, focusVars, titleVars, configVars>>

\* A blocked send that gives up its event when it wakes
SendUnblockLosing ==
    /\ listener = "blocked"
    /\ IF ~rx_alive
       THEN /\ listener' = "panicked"
            /\ outcome' = "cannot receive notification"
            /\ queue' = queue
       ELSE /\ HasRoom(queue)
            /\ queue' = queue
            /\ listener' = "idle"
            /\ outcome' = "sent"
    /\ pending' = None
    /\ UNCHANGED <<page_id, rx_alive, notification, args, accepted, received,
                   blocked_at, irregular>>
    /\ UNCHANGED <<connVars, registryVars, focusVars, titleVars, configVars>>

\* A send blocked on a full buffer completes once there is room, and fails
\* once the receiver is gone
SendUnblock ==
    /\ listener = "blocked"
    /\ IF ~rx_alive
       THEN /\ listener' = "panicked"
            /\ outcome' = "cannot receive notification"
            /\ queue' = queue
       ELSE /\ HasRoom(queue)
            /\ queue' = Enqueue(queue, pending[1])
            /\ listener' = "idle"
            /\ outcome' = "sent"
    /\ pending' = None
    /\ UNCHANGED <<page_id, rx_alive, notification, args, accepted, received,
                   blocked_at, irregular>>
    /\ UNCHANGED <<connVars, registryVars, focusVars, titleVars, configVars>>

\* The main control loop takes the next event from rx
Recv ==
    /\ rx_alive
    /\ queue # <<>>
    /\ received' = Append(received, Head(queue))
    /\ queue' = Tail(queue)
    /\ UNCHANGED <<page_id, rx_alive, listener, pending, notification, args,
                   outcome, accepted, blocked_at, irregular>>
    /\ UNCHANGED <<connVars, registryVars, focusVars, titleVars, configVars>>

\* The NeovimConnection, and with it rx, is dropped (close() consumes it);
\* the channel discards what is still buffered
DropReceiver ==
    /\ rx_alive
    /\ rx_alive' = FALSE
    /\ queue' = <<>>
    /\ UNCHANGED <<page_id, listener, pending, notification, args, outcome,
                   accepted, received, blocked_at, irregular>>
    /\ UNCHANGED <<connVars, registryVars, focusVars, titleVars, configVars>>

NextBridge ==
    \/ Notify
    \/ SendUnblock
    \/ Recv
    \/ DropReceiver

(***************************************************************************)
(* Instance registry: NeovimActions::mark_buffer_as_instance and           *)
(* NeovimActions::find_instance_buffer, against the editor's buffers       *)
(***************************************************************************)

\* The editor hands out buffer numbers 1..MaxBufs
MaxBufs == 2

InstNames == {"n", "m"}
SinkPaths == {"/p", "/q"}

\* A value of b:page_instance: an array of Values, or a scalar Value
ArrayValue(es) == [arr |-> TRUE, elems |-> es]
ScalarValue(v) == [arr |-> FALSE, elems |-> <<v>>]

\* `Value::from(vec![Value::from(inst_name), Value::from(inst_pty_path)])`
InstanceValueSwapped(name, path) == ArrayValue(<<StrVal(path), StrVal(name)>>)
InstanceValue(name, path) == ArrayValue(<<StrVal(name), StrVal(path)>>)

\* What b:page_instance may hold: unset (None) or Some(value)
TagValues ==
    {None}
    \cup {Some(InstanceValue(n, p)) : n \in InstNames, p \in SinkPaths}
    \cup {Some(ScalarValue(StrVal("n"))),
          Some(ArrayValue(<<StrVal("n")>>)),
          Some(ArrayValue(<<StrVal("n"), IntVal(5)>>))}

\* The two descriptions of a missing key, by editor version, and another error
KeyNotFoundOld == "1 - Key 'page_instance' not found"
KeyNotFoundNew == "1 - Key not found: page_instance"
OtherReadError == "1 - Invalid buffer id"

\* buf.get_var(nvim, "page_instance"): [ok, val, err]
GetVar(b, tg, flt, descr) ==
    IF b \in flt THEN [ok |-> FALSE, val |-> None, err |-> OtherReadError]
    ELSE IF tg[b] = None THEN [ok |-> FALSE, val |-> None, err |-> descr]
    ELSE [ok |-> TRUE, val |-> tg[b], err |-> ""]

\* The test of the error description knowing only the older phrasing
UnrecognisedErrorOldOnly(descr) == descr # KeyNotFoundOld

\* The test of the error description that lets every read error pass
UnrecognisedErrorNever(descr) == FALSE

\* `descr != "1 - Key 'page_instance' not found" && descr != "1 - Key not found: page_instance"`
UnrecognisedError(descr) == descr # KeyNotFoundOld /\ descr # KeyNotFoundNew

\* `v.as_array().map(..as_str..)` matched against [Some(name), Some(path)]:
\* Some(<<name, path>>) or None
DecodePair(v) ==
    IF v.arr /\ Len(v.elems) = 2
       /\ IsSome(AsStr(v.elems[1])) /\ IsSome(AsStr(v.elems[2]))
    THEN Some(<<AsStr(v.elems[1])[1], AsStr(v.elems[2])[1]>>)
    ELSE None

\* A result of find_instance_buffer: None, Some((buf, sink)) or a panic
FoundNone == [res |-> "None", buf |-> 0, path |-> ""]
FoundSome(b, p) == [res |-> "Some", buf |-> b, path |-> p]
FoundPanic == [res |-> "panic", buf |-> 0, path |-> ""]
NotRun == [res |-> "-", buf |-> 0, path |-> ""]

\* find_instance_buffer that keeps scanning after a match and returns the
\* last buffer carrying the name
RECURSIVE find_instance_buffer_last(_, _, _, _, _)
find_instance_buffer_last(list, tg, flt, descr, inst_name) ==
    IF list = <<>> THEN FoundNone
    ELSE LET buf == Head(list)
             inst_var == GetVar(buf, tg, flt, descr)
             rest == find_instance_buffer_last(Tail(list), tg, flt, descr, inst_name)
         IN  IF ~inst_var.ok
             THEN IF UnrecognisedError(inst_var.err) THEN FoundPanic ELSE rest
             ELSE LET pair == DecodePair(inst_var.val[1])
                  IN  IF IsSome(pair) /\ inst_name = pair[1][1] /\ rest.res # "Some"
                      THEN FoundSome(buf, pair[1][2])
                      ELSE rest

\* find_instance_buffer(inst_name) over the buffers `list`, in order
RECURSIVE find_instance_buffer(_, _, _, _, _)
find_instance_buffer(list, tg, flt, descr, inst_name) ==
    IF list = <<>> THEN FoundNone
    ELSE LET buf == Head(list)
             inst_var == GetVar(buf, tg, flt, descr)
         IN  IF ~inst_var.ok
             THEN IF UnrecognisedError(inst_var.err)
                  THEN FoundPanic
                  ELSE find_instance_buffer(Tail(list), tg, flt, descr, inst_name)
             ELSE LET pair == DecodePair(inst_var.val[1])
                  IN  IF IsSome(pair) /\ inst_name = pair[1][1]
                      THEN FoundSome(buf, pair[1][2])
                      ELSE find_instance_buffer(Tail(list), tg, flt, descr, inst_name)

\* The buffers whose tag find_instance_buffer(inst_name) reads, in order: the
\* `for` loop calls get_var on each buffer until it returns or panics
RECURSIVE ScanReads(_, _, _, _, _)
ScanReads(list, tg, flt, descr, inst_name) ==
    IF list = <<>> THEN <<>>
    ELSE IF find_instance_buffer(<<Head(list)>>, tg, flt, descr, inst_name) = FoundNone
    THEN <<Head(list)>> \o ScanReads(Tail(list), tg, flt, descr, inst_name)
    ELSE <<Head(list)>>

NoRoundTrip == [stage |-> "-", buf |-> 0, name |-> "", path |-> "",
                found |-> NotRun, reads |-> <<>>]
OpenBufs == {bufs[k] : k \in DOMAIN bufs}

\* mark_buffer_as_instance(buffer, inst_name, inst_pty_path): set_var fails,
\* and the failure is only logged, when the buffer is no longer open
mark_buffer_as_instance(b, name, path) ==
    /\ reg_pc = "ready"
    /\ IF b \in OpenBufs
       THEN /\ tag' = [tag EXCEPT ![b] = Some(InstanceValue(name, path))]
            /\ rt' = [stage |-> "marked", buf |-> b, name |-> name,
                      path |-> path, found |-> NotRun, reads |-> <<>>]
            /\ errlog' = <<>>
            /\ op_err' = ""
       ELSE /\ tag' = tag
            /\ rt' = [NoRoundTrip EXCEPT !.stage = "mark_failed"]
            /\ errlog' = <<"new instance">>
            /\ op_err' = "set_var"
    /\ UNCHANGED <<bufs, next_buf, faulty, key_not_found, reg_pc>>

Mark ==
    /\ \E b \in 1..(next_buf - 1), name \in InstNames, path \in SinkPaths :
        mark_buffer_as_instance(b, name, path)
    /\ UNCHANGED <<connVars, bridgeVars, focusVars, titleVars, configVars>>

\* find_instance_buffer(inst_name) called by the main thread
Find ==
    /\ reg_pc = "ready"
    /\ \E name \in InstNames :
        LET r == find_instance_buffer(bufs, tag, faulty, key_not_found, name)
            rd == ScanReads(bufs, tag, faulty, key_not_found, name)
        IN  /\ rt' = IF rt.stage = "marked" /\ rt.name = name
                     THEN [rt EXCEPT !.stage = "marked_found", !.found = r,
                                     !.reads = rd]
                     ELSE IF rt.stage = "marked_removed" /\ rt.name = name
                     THEN [rt EXCEPT !.stage = "removed_found", !.found = r,
                                     !.reads = rd]
                     ELSE [NoRoundTrip EXCEPT !.stage = "found", !.name = name,
                                              !.found = r, !.reads = rd]
            /\ reg_pc' = IF r.res = "panic" THEN "panicked" ELSE "ready"
    /\ errlog' = <<>>
    /\ op_err' = ""
    /\ UNCHANGED <<bufs, next_buf, tag, faulty, key_not_found>>
    /\ UNCHANGED <<connVars, bridgeVars, focusVars, titleVars, configVars>>

\* The editor opens a buffer: it gets the next number and carries no tag
OpenBuffer ==
    /\ reg_pc = "ready"
    /\ next_buf <= MaxBufs
    /\ bufs' = Append(bufs, next_buf)
    /\ next_buf' = next_buf + 1
    /\ rt' = NoRoundTrip
    /\ UNCHANGED <<tag, faulty, key_not_found, reg_pc, errlog, op_err>>
    /\ UNCHANGED <<connVars, bridgeVars, focusVars, titleVars, configVars>>

\* A buffer leaves the open-buffer set; its variables go with it
RemoveBuffer ==
    /\ reg_pc = "ready"
    /\ Len(bufs) > 1
    /\ \E b \in OpenBufs :
        /\ bufs' = SelectSeq(bufs, LAMBDA x : x # b)
        /\ tag' = [tag EXCEPT ![b] = None]
        /\ faulty' = faulty \ {b}
        /\ rt' = IF rt.stage = "marked" /\ rt.buf = b
                 THEN [rt EXCEPT !.stage = "marked_removed"]
                 ELSE NoRoundTrip
    /\ UNCHANGED <<next_buf, key_not_found, reg_pc, errlog, op_err>>
    /\ UNCHANGED <<connVars, bridgeVars, focusVars, titleVars, configVars>>

\* Someone else (another invocation, the user) sets or unsets b:page_instance
ExternalTag ==
    /\ reg_pc = "ready"
    /\ \E b \in OpenBufs, v \in TagValues :
        /\ v # tag[b]
        /\ tag' = [tag EXCEPT ![b] = v]
    /\ rt' = NoRoundTrip
    /\ UNCHANGED <<bufs, next_buf, faulty, key_not_found, reg_pc, errlog, op_err>>
    /\ UNCHANGED <<connVars, bridgeVars, focusVars, titleVars, configVars>>

\* Reading a buffer's variable starts or stops failing with another error
ToggleFault ==
    /\ reg_pc = "ready"
    /\ \E b \in OpenBufs :
        faulty' = IF b \in faulty THEN faulty \ {b} ELSE faulty \cup {b}
    /\ rt' = NoRoundTrip
    /\ UNCHANGED <<bufs, next_buf, tag, key_not_found, reg_pc, errlog, op_err>>
    /\ UNCHANGED <<connVars, bridgeVars, focusVars, titleVars, configVars>>

\* close_instance_buffer(inst_name) with an unwrap in place of the logged error
close_instance_buffer_unwrapping(inst_name, num_fails, cmd_fails) ==
    LET r == find_instance_buffer(bufs, tag, faulty, key_not_found, inst_name)
        failed == IF num_fails THEN "get_number" ELSE IF cmd_fails THEN "command" ELSE ""
    IN  /\ reg_pc = "ready"
        /\ rt' = [NoRoundTrip EXCEPT !.stage = "close", !.name = inst_name, !.found = r]
        /\ errlog' = <<>>
        /\ op_err' = IF r.res = "Some" THEN failed ELSE ""
        /\ reg_pc' = IF r.res = "panic" \/ (r.res = "Some" /\ failed # "")
                     THEN "panicked" ELSE "ready"
        /\ IF r.res = "Some" /\ failed = ""
           THEN /\ bufs' = IF Len(bufs) > 1
                           THEN SelectSeq(bufs, LAMBDA x : x # r.buf) ELSE bufs
                /\ tag' = [tag EXCEPT ![r.buf] = None]
                /\ faulty' = faulty \ {r.buf}
           ELSE UNCHANGED <<bufs, tag, faulty>>
        /\ UNCHANGED <<next_buf, key_not_found>>

\* close_instance_buffer(inst_name): the lookup, then get_number and the
\* "exe 'bd!' . <nr>" command, whose errors are logged. num_fails, cmd_fails:
\* the editor fails that request. bd! clears the buffer's variables and takes
\* it out of the buffer list (the editor keeps its last buffer).
close_instance_buffer(inst_name, num_fails, cmd_fails) ==
    LET r == find_instance_buffer(bufs, tag, faulty, key_not_found, inst_name)
        failed == IF num_fails THEN "get_number" ELSE IF cmd_fails THEN "command" ELSE ""
    IN  /\ reg_pc = "ready"
        /\ rt' = [NoRoundTrip EXCEPT !.stage = "close", !.name = inst_name, !.found = r]
        /\ errlog' = IF r.res = "Some" /\ failed # "" THEN <<"close instance">> ELSE <<>>
        /\ op_err' = IF r.res = "Some" THEN failed ELSE ""
        /\ reg_pc' = IF r.res = "panic" THEN "panicked" ELSE "ready"
        /\ IF r.res = "Some" /\ failed = ""
           THEN /\ bufs' = IF Len(bufs) > 1
                           THEN SelectSeq(bufs, LAMBDA x : x # r.buf) ELSE bufs
                /\ tag' = [tag EXCEPT ![r.buf] = None]
                /\ faulty' = faulty \ {r.buf}
           ELSE UNCHANGED <<bufs, tag, faulty>>
        /\ UNCHANGED <<next_buf, key_not_found>>

CloseInstance ==
    /\ \E name \in InstNames, num_fails \in BOOLEAN, cmd_fails \in BOOLEAN :
        close_instance_buffer(name, num_fails, cmd_fails)
    /\ UNCHANGED <<connVars, bridgeVars, focusVars, titleVars, configVars>>

NextRegistry ==
    \/ Mark
    \/ Find
    \/ CloseInstance
    \/ OpenBuffer
    \/ RemoveBuffer
    \/ ExternalTag
    \/ ToggleFault

(***************************************************************************)
(* Focus: NeovimActions::focus_instance_buffer against the editor's windows *)
(***************************************************************************)

\* The editor has windows 1..MaxWins, each displaying one of the buffers
\* 1..MaxFocusBufs
MaxWins == 3
MaxFocusBufs == 3

\* A request that changes what is current: set_current_win or set_current_buf
Request(r, a) == [req |-> r, arg |-> a]

NoFocus == [target |-> 0, before_win |-> 0, before_buf |-> 0, requests |-> <<>>]

\* focus_instance_buffer(inst_buf): when inst_buf is not current, the first
\* window displaying it becomes current and the function returns; when no
\* window displays it, and also when inst_buf is already current (the `else`
\* only logs), control reaches `self.nvim.set_current_buf(inst_buf).unwrap()`
focus_instance_buffer(inst_buf) ==
    LET showing == {w \in DOMAIN wins : wins[w] = inst_buf}
        first == CHOOSE w \in showing : \A v \in showing : w <= v
    IN  /\ IF wins[cur_win] # inst_buf /\ showing # {}
           THEN /\ cur_win' = first
                /\ wins' = wins
                /\ focus' = [target |-> inst_buf, before_win |-> cur_win,
                             before_buf |-> wins[cur_win],
                             requests |-> <<Request("set_current_win", first)>>]
           ELSE /\ cur_win' = cur_win
                /\ wins' = [wins EXCEPT ![cur_win] = inst_buf]
                /\ focus' = [target |-> inst_buf, before_win |-> cur_win,
                             before_buf |-> wins[cur_win],
                             requests |-> <<Request("set_current_buf", inst_buf)>>]

Focus ==
    /\ \E b \in 1..MaxFocusBufs : focus_instance_buffer(b)
    /\ UNCHANGED <<connVars, bridgeVars, registryVars, titleVars, configVars>>

\* The user makes another window current
UserSwitchWindow ==
    /\ \E w \in DOMAIN wins :
        /\ w # cur_win
        /\ cur_win' = w
    /\ focus' = NoFocus
    /\ wins' = wins
    /\ UNCHANGED <<connVars, bridgeVars, registryVars, titleVars, configVars>>

\* The user shows another buffer in some window
UserShowBuffer ==
    /\ \E w \in DOMAIN wins, b \in 1..MaxFocusBufs :
        /\ wins[w] # b
        /\ wins' = [wins EXCEPT ![w] = b]
    /\ focus' = NoFocus
    /\ cur_win' = cur_win
    /\ UNCHANGED <<connVars, bridgeVars, registryVars, titleVars, configVars>>

NextFocus ==
    \/ Focus
    \/ UserSwitchWindow
    \/ UserShowBuffer

(***************************************************************************)
(* Buffer title: NeovimActions::update_buffer_title                        *)
(***************************************************************************)

\* `(1..99)`: the suffix numbers run from 1 up to, not including, 99
SuffixRangeEnd == 99

\* `99 < attempt_nr`
LastAttemptNr == 99

\* first_free ranges over 0..MaxFree; MaxFree says that the title and every
\* suffix below MaxFree are taken
MaxFree == 101

\* update_buffer_title(buf, buf_title) is called
TitleStart ==
    /\ t_pc = "idle"
    /\ t_pc' = "renaming"
    /\ UNCHANGED <<attempt_nr, first_free, t_trace, buf_name, t_errors, redraws>>
    /\ UNCHANGED <<connVars, bridgeVars, registryVars, focusVars, configVars>>

\* One iteration of `for (attempt_nr, name) in a.chain(b)`: buf.set_name(name)
\* collides while the candidate is taken; it may also fail in another way.
\* When the iterator has no next candidate the loop, and the function, ends.
TitleAttempt ==
    /\ t_pc = "renaming"
    /\ \E res \in (IF attempt_nr < first_free THEN {"Collision"} ELSE {"Ok"})
                  \cup {"Other"} :
        /\ t_trace' = Append(t_trace, [nr |-> attempt_nr, res |-> res])
        /\ IF res = "Ok"
           THEN /\ buf_name' = attempt_nr
                /\ redraws' = redraws + 1
                /\ t_pc' = "done"
                /\ UNCHANGED <<attempt_nr, t_errors>>
           ELSE IF LastAttemptNr < attempt_nr \/ res # "Collision"
           THEN /\ t_errors' = t_errors + 1
                /\ t_pc' = "done"
                /\ UNCHANGED <<attempt_nr, buf_name, redraws>>
           ELSE IF attempt_nr + 1 < SuffixRangeEnd
           THEN /\ attempt_nr' = attempt_nr + 1
                /\ UNCHANGED <<t_pc, buf_name, redraws, t_errors>>
           ELSE /\ t_pc' = "done"
                /\ UNCHANGED <<attempt_nr, buf_name, redraws, t_errors>>
    /\ UNCHANGED first_free
    /\ UNCHANGED <<connVars, bridgeVars, registryVars, focusVars, configVars>>

NextTitle ==
    \/ TitleStart
    \/ TitleAttempt

(***************************************************************************)
(* Child process arguments: connection::spawn_child_nvim_process and       *)
(* connection::default_config_path                                         *)
(***************************************************************************)

\* A path: its leading part, the relative part joined to it, and whether the
\* leading part holds a blank
Path(base, rel, spaces) == [base |-> base, rel |-> rel, spaces |-> spaces]
NoPath == Path("", "", FALSE)

\* `PathBuf::from(dir).join(rel)`
Join(dir, rel) == Path(dir.base, rel, dir.spaces)

\* The values of opt.config, $XDG_CONFIG_HOME and $HOME
ExplicitPaths == {Path("/e/init.vim", "", FALSE), Path("/my e/init.vim", "", TRUE)}
XdgDirs == {Path("/x", "", FALSE), Path("/my x", "", TRUE)}
HomeDirs == {Path("/h", "", FALSE), Path("/my h", "", TRUE)}

\* The candidate locations, in the order they are consulted, and what the
\* file system may hold at one of them
Slots == <<"explicit", "xdg", "home">>
EntryKinds == {"absent", "file", "dir"}

\* `p.exists()`
Exists(f, slot) == f[slot] # "absent"

\* One word of the argument vector: a literal, a whole path (part 0), or the
\* part of a path before (1) or after (2) its blank
Tok(w) == [word |-> w, path |-> NoPath, part |-> 0]
PathTok(p, k) == [word |-> "", path |-> p, part |-> k]

\* shell_words::split applied to a path written unquoted into the string
Split(p) == IF p.spaces THEN <<PathTok(p, 1), PathTok(p, 2)>> ELSE <<PathTok(p, 0)>>

\* default_config_path(): $XDG_CONFIG_HOME/page/init.vim if that exists, or
\* else $HOME/.config/page/init.vim if that exists
default_config_path(xdg, home, f) ==
    LET a == IF IsSome(xdg) /\ Exists(f, "xdg")
             THEN Some(Join(xdg[1], "page/init.vim")) ELSE None
        b == IF IsSome(home) /\ Exists(f, "home")
             THEN Some(Join(home[1], ".config/page/init.vim")) ELSE None
    IN  IF IsSome(a) THEN a ELSE b

\* "--cmd 'set shortmess+=I' --listen <addr>", split
BaseArgs == <<Tok("--cmd"), Tok("set shortmess+=I"), Tok("--listen"), Tok("<addr>")>>

\* The words of opt.arguments
CustomArgs(arguments) == IF IsSome(arguments) THEN <<Tok(arguments[1])>> ELSE <<>>

\* The `nvim_args` of spawn_child_nvim_process: the string is put together
\* with `opt.config.clone().or_else(default_config_path)` after "-u " and then
\* split as a whole
NvimArgs(config_opt, arguments, xdg, home, f) ==
    LET config == IF IsSome(config_opt) THEN config_opt
                  ELSE default_config_path(xdg, home, f)
    IN  BaseArgs
        \o (IF IsSome(config) THEN <<Tok("-u")>> \o Split(config[1]) ELSE <<>>)
        \o CustomArgs(arguments)

\* spawn_child_nvim_process(opt, nvim_listen_addr)
spawn_child_nvim_process ==
    /\ cfg_pc = "start"
    /\ nvim_args' = NvimArgs(opt_config, opt_arguments, xdg_config_home, home_dir, fs)
    /\ cfg_pc' = "spawned"
    /\ UNCHANGED <<opt_config, opt_arguments, xdg_config_home, home_dir, fs>>
    /\ UNCHANGED <<connVars, bridgeVars, registryVars, focusVars, titleVars>>

NextConfig ==
    \/ spawn_child_nvim_process

(***************************************************************************)
(* Initial states and specifications                                       *)
(***************************************************************************)

\* Before open(): the command line is parsed, nothing is connected
ConnInit(addrs, protections) ==
    /\ address \in addrs
    /\ print_protection \in protections
    /\ pc = "open"
    /\ i = 0
    /\ nvim_proc = "None"
    /\ child = "none"
    /\ trace = <<>>

\* Before spawn_child_nvim_process: the options, the environment and the
\* file system as this invocation finds them
ConfigInit(configs, xdgs, homes, kinds) ==
    /\ opt_config \in configs
    /\ opt_arguments \in {None, Some("-R")}
    /\ xdg_config_home \in xdgs
    /\ home_dir \in homes
    /\ fs \in [{"explicit", "xdg", "home"} -> kinds]
    /\ cfg_pc = "start"
    /\ nvim_args = <<>>

ConfigFixed ==
    /\ opt_config = None
    /\ opt_arguments = None
    /\ xdg_config_home = None
    /\ home_dir = None
    /\ fs = [slot \in {"explicit", "xdg", "home"} |-> "absent"]
    /\ cfg_pc = "start"
    /\ nvim_args = <<>>

\* After subscribe(): an empty channel, the listener waiting for notifications
BridgeInit(ids) ==
    /\ page_id \in ids
    /\ queue = <<>>
    /\ rx_alive = TRUE
    /\ listener = "idle"
    /\ pending = None
    /\ notification = ""
    /\ args = <<>>
    /\ outcome = "-"
    /\ accepted = <<>>
    /\ received = <<>>
    /\ blocked_at = {}
    /\ irregular = 0

\* The editor with its first buffer, untagged
RegistryInit(descrs) ==
    /\ bufs = <<1>>
    /\ next_buf = 2
    /\ tag = [b \in 1..MaxBufs |-> None]
    /\ faulty = {}
    /\ key_not_found \in descrs
    /\ reg_pc = "ready"
    /\ rt = NoRoundTrip
    /\ errlog = <<>>
    /\ op_err = ""

\* The editor's windows, each displaying the first buffer; no focus call made
FocusInit ==
    /\ wins = [w \in 1..MaxWins |-> 1]
    /\ cur_win = 1
    /\ focus = NoFocus

\* Before update_buffer_title is called; `free` are the possible values of the
\* smallest candidate number that names no buffer yet
TitleInit(free) ==
    /\ t_pc = "idle"
    /\ attempt_nr = 0
    /\ first_free \in free
    /\ t_trace = <<>>
    /\ buf_name = -1
    /\ t_errors = 0
    /\ redraws = 0

InitConn ==
    /\ ConnInit({"None", "Some"}, BOOLEAN)
    /\ BridgeInit({"page-A"})
    /\ RegistryInit({KeyNotFoundNew})
    /\ FocusInit
    /\ TitleInit({0})
    /\ ConfigFixed

InitBridge ==
    /\ ConnInit({"None"}, {FALSE})
    /\ BridgeInit(PageIds)
    /\ RegistryInit({KeyNotFoundNew})
    /\ FocusInit
    /\ TitleInit({0})
    /\ ConfigFixed

InitRegistry ==
    /\ ConnInit({"None"}, {FALSE})
    /\ BridgeInit({"page-A"})
    /\ RegistryInit({KeyNotFoundOld, KeyNotFoundNew})
    /\ FocusInit
    /\ TitleInit({0})
    /\ ConfigFixed

SpecConn == InitConn /\ [][NextConn]_vars
SpecBridge == InitBridge /\ [][NextBridge]_vars

\* The bridge while the connection, and with it rx, is kept: the main loop
\* goes on calling rx.recv(), and a sender waiting in tx.send is woken once
\* the buffer has room
NextBridgeReceiving ==
    \/ Notify
    \/ SendUnblock
    \/ Recv

SpecBridgeReceiving ==
    /\ InitBridge
    /\ [][NextBridgeReceiving]_vars
    /\ WF_vars(Recv)
    /\ WF_vars(SendUnblock)
SpecRegistry == InitRegistry /\ [][NextRegistry]_vars

InitFocus ==
    /\ ConnInit({"None"}, {FALSE})
    /\ BridgeInit({"page-A"})
    /\ RegistryInit({KeyNotFoundNew})
    /\ FocusInit
    /\ TitleInit({0})
    /\ ConfigFixed

InitTitle ==
    /\ ConnInit({"None"}, {FALSE})
    /\ BridgeInit({"page-A"})
    /\ RegistryInit({KeyNotFoundNew})
    /\ FocusInit
    /\ TitleInit(0..MaxFree)
    /\ ConfigFixed

InitConfig ==
    /\ ConnInit({"None"}, {FALSE})
    /\ BridgeInit({"page-A"})
    /\ RegistryInit({KeyNotFoundNew})
    /\ FocusInit
    /\ TitleInit({0})
    /\ ConfigInit({None} \cup {Some(p) : p \in ExplicitPaths},
                  {None} \cup {Some(p) : p \in XdgDirs},
                  {None} \cup {Some(p) : p \in HomeDirs},
                  EntryKinds)

SpecConfig == InitConfig /\ [][NextConfig]_vars
SpecFocus == InitFocus /\ [][NextFocus]_vars
SpecTitle == InitTitle /\ [][NextTitle]_vars

(***************************************************************************)
(* Session establishment (checked under SpecConn)                          *)
(***************************************************************************)

SpawnMode == address = "None"
AttachMode == address = "Some"
Established == {"connected", "waiting", "closed"}
AllNotFound(rs) == \A k \in DOMAIN rs : rs[k] = "NotFound"

\* C1: in spawn mode, when every connection attempt fails with NotFound,
\* establishment fails after exactly 100 attempts: there is never a 101st
\* attempt, and the fatal failure comes with the 100th.
C1_FailsAfterExactly100Attempts ==
    SpawnMode /\ AllNotFound(Results) =>
        /\ Attempts <= 100
        /\ (pc = "panicked" /\ Attempts > 0 => Attempts = 100)

\* C2: in spawn mode, for every k in 0..99, after k NotFound failures the loop
\* is still connecting (attempt k+1 will be made), and when attempt k+1
\* succeeds the session and the child are returned and that attempt is the
\* last effect of establishment: no further attempt, no sleep.
C2_SucceedsOnAttemptKPlus1 ==
    SpawnMode =>
        \A k \in 0..99 :
            LET rs == Results
            IN  /\ (Spawns = 1 /\ Len(rs) = k /\ AllNotFound(rs)) =>
                      (pc = "connecting" /\ i = k)
                /\ (Len(rs) > k /\ rs[k + 1] = "Ok") =>
                      /\ Len(rs) = k + 1
                      /\ \A j \in 1..k : rs[j] = "NotFound"
                      /\ Sleeps = k
                      /\ pc \in Established
                      /\ nvim_proc = "Some"

\* C2 witness: the socket became connectable after 99 failed polls and the
\* 100th attempt returned the session
C2_Witness ==
    /\ SpawnMode
    /\ pc = "connected"
    /\ Attempts = 100
    /\ Results[100] = "Ok"

\* C3: in spawn mode, a connection attempt that fails with an error other
\* than NotFound is the last thing establishment does: the main thread has
\* aborted, and neither a sleep nor another attempt follows it.
C3_OtherErrorAbortsAtOnce ==
    SpawnMode =>
        \A k \in DOMAIN trace :
            (trace[k].ev = "connect" /\ trace[k].res \notin {"Ok", "NotFound"}) =>
                (k = Len(trace) /\ pc = "panicked")

\* C3 witness: after some tolerated failures, a refused connection aborted
C3_Witness ==
    /\ SpawnMode
    /\ pc = "panicked"
    /\ Attempts = 4
    /\ Sleeps = 3
    /\ Results[4] = "ConnectionRefused"

\* C4: in attach mode, open makes exactly one connection attempt, a failure
\* of any kind (NotFound included) is fatal without sleep or retry, and no
\* child process is ever spawned or held.
C4_AttachSingleAttempt ==
    AttachMode =>
        /\ Attempts <= 1
        /\ (pc # "open" => Attempts = 1)
        /\ (Attempts = 1 /\ Results[1] # "Ok" => pc = "panicked")
        /\ (Attempts = 1 /\ Results[1] = "Ok" => pc \in Established)
        /\ Len(trace) = Attempts
        /\ child = "none"
        /\ nvim_proc = "None"

\* C4 witness: the named target was not there; open failed at once
C4_Witness ==
    /\ AttachMode
    /\ pc = "panicked"
    /\ Results = <<"NotFound">>

(***************************************************************************)
(* Notification bridge (checked under SpecBridge)                          *)
(***************************************************************************)

\* The first argument is a string equal to the receiver's page id
FirstArgIsOwnId(a) == Len(a) >= 1 /\ a[1].t = "str" /\ a[1].s = page_id

\* The second argument is a non-negative integer
HasCount(a) == Len(a) >= 2 /\ a[2].t = "int" /\ a[2].n >= 0

\* The events in the channel or held by the blocked sender, oldest first
InChannel == queue \o pending

\* A step in which handle_notify ran (its arguments are notification', args')
NotifyStep == irregular' # irregular \/ accepted' # accepted

\* C5: whenever an event enters the channel, the notification being handled
\* carries the receiver's own page id as its first, string, argument; and a
\* notification with a foreign id, a non-string id or no arguments changes
\* neither the queue nor the listener, whatever its name and other arguments.
C5_ForeignIdNeverQueued ==
    [][ /\ (Len(InChannel') > Len(InChannel) \/ accepted' # accepted) =>
              FirstArgIsOwnId(args')
        /\ (NotifyStep /\ ~FirstArgIsOwnId(args')) =>
              /\ queue' = queue
              /\ pending' = pending
              /\ accepted' = accepted
              /\ listener' = listener
      ]_vars

\* C5 witness: a fetch-lines notification with a foreign id and a count was
\* handled while events were queued, and it was dropped
C5_Witness ==
    /\ notification = "page_fetch_lines"
    /\ args = <<StrVal(ForeignId), IntVal(2)>>
    /\ outcome = "invalid page id"
    /\ Len(queue) = 3
    /\ accepted = received \o queue

\* C6: a notification with the correct id hands exactly one event to the
\* channel, determined by its name and arguments: fetch-lines with a count
\* gives FetchLines(count), fetch-lines without a count gives FetchPart,
\* buffer-closed gives BufferClosed; any other name gives no event. While the
\* receiver is alive the event is the newest one in the channel.
C6_EventDeterminedByNameAndArgs ==
    [][ (NotifyStep /\ FirstArgIsOwnId(args')) =>
          LET one(e) == /\ accepted' = Append(accepted, e)
                        /\ rx_alive => InChannel' = Append(InChannel, e)
          IN  /\ (notification' = "page_fetch_lines" /\ HasCount(args')) =>
                    one(FetchLines(args'[2].n))
              /\ (notification' = "page_fetch_lines" /\ Len(args') = 1) =>
                    one(FetchPart)
              /\ notification' = "page_fetch_lines" =>
                    Len(accepted') = Len(accepted) + 1
              /\ notification' = "page_buffer_closed" =>
                    one(BufferClosed)
              /\ notification' \notin {"page_fetch_lines", "page_buffer_closed"} =>
                    /\ accepted' = accepted
                    /\ InChannel' = InChannel
      ]_vars

\* C6 witness: a count-bearing request and then a buffer-closed notification
\* were translated and queued
C6_Witness ==
    /\ notification = "page_buffer_closed"
    /\ args = <<StrVal(page_id)>>
    /\ queue = <<FetchLines(1), BufferClosed>>
    /\ outcome = "sent"

\* C7: the consumer has received exactly a prefix of the accepted events, in
\* the order the listener accepted them, and what is still in the channel
\* continues that order.
C7_Fifo ==
    /\ Len(received) <= Len(accepted)
    /\ received = SubSeq(accepted, 1, Len(received))
    /\ rx_alive =>
          received \o InChannel =
              SubSeq(accepted, 1, Len(received) + Len(InChannel))

\* C7 witness: the queue is full again after the consumer took events from it
C7_Witness ==
    /\ Len(received) = 2
    /\ Len(queue) = Capacity
    /\ received = <<FetchLines(1), FetchLines(2)>>

\* C8: the queue never holds more than 16 events; a send blocks only when it
\* finds 16 queued, a blocked send keeps its event and puts it in the queue
\* only once there is room again, and while the receiver is alive every
\* accepted event is received, queued or held by the blocked sender.
C8_BoundedBlockingQueue ==
    /\ [](/\ Len(queue) <= 16
          /\ listener = "blocked" <=> IsSome(pending)
          /\ rx_alive => accepted = received \o queue \o pending)
    /\ [][ /\ (listener = "idle" /\ listener' = "blocked") => 
                  (Len(queue) = 16 /\ queue' = queue)
           /\ (listener = "blocked" /\ listener' = "idle") =>
                  (Len(queue) < 16 /\ queue' = Append(queue, pending[1]))
           /\ (listener = "blocked" /\ listener' = "blocked" /\ rx_alive') =>
                  pending' = pending
         ]_vars

\* C8 witness: the listener is blocked in send on a full queue
C8_Witness ==
    /\ listener = "blocked"
    /\ Len(queue) = 16
    /\ rx_alive
    /\ pending = <<FetchLines(17)>>

\* C9: with the receiver dropped, handling a notification that passes the id
\* and name filters makes the listener panic; handling one that is filtered
\* out leaves it running.
C9_SendAfterDisconnectIsFatal ==
    [][ (NotifyStep /\ ~rx_alive) =>
          IF /\ FirstArgIsOwnId(args')
             /\ notification' \in {"page_fetch_lines", "page_buffer_closed"}
          THEN listener' = "panicked" /\ queue' = queue
          ELSE listener' = "idle"
      ]_vars

\* C9 witness: the receiver was dropped with events outstanding and the next
\* accepted notification made the listener panic
C9_Witness ==
    /\ ~rx_alive
    /\ listener = "panicked"
    /\ notification = "page_buffer_closed"
    /\ Len(accepted) = 3
    /\ Len(received) = 1

(***************************************************************************)
(* Instance registry (checked under SpecRegistry)                          *)
(***************************************************************************)

\* Buffer b holds a two-string tag whose name is `name`
Carries(b, name) ==
    /\ IsSome(tag[b])
    /\ tag[b][1].arr
    /\ Len(tag[b][1].elems) = 2
    /\ tag[b][1].elems[1] = StrVal(name)
    /\ tag[b][1].elems[2].t = "str"

\* C10 as stated: whatever tags the other open buffers carry, find(n) right
\* after a successful mark(B, n, p) yields (B, p), and find(n) right after B
\* was then removed yields nothing. (Stated for scans in which no tag read
\* fails with an unrecognised error.)
C10_RoundTripWhateverOtherTags ==
    /\ (rt.stage = "marked_found" /\ faulty = {}) =>
          rt.found = FoundSome(rt.buf, rt.path)
    /\ (rt.stage = "removed_found" /\ faulty = {}) =>
          rt.found = FoundNone

\* C10 amended: find(n) right after a successful mark(B, n, p) yields (B, p)
\* provided no open buffer listed before B carries a tag named n and no tag
\* read up to B fails with an unrecognised error; find(n) right after B was
\* then removed yields nothing provided no remaining open buffer carries a
\* tag named n and no tag read fails with an unrecognised error.
C10_RoundTripUniqueName ==
    /\ ( /\ rt.stage = "marked_found"
         /\ \A b \in OpenBufs :
               /\ b <= rt.buf => b \notin faulty
               /\ b < rt.buf => ~Carries(b, rt.name) ) =>
          rt.found = FoundSome(rt.buf, rt.path)
    /\ ( /\ rt.stage = "removed_found"
         /\ faulty = {}
         /\ \A b \in OpenBufs : ~Carries(b, rt.name) ) =>
          rt.found = FoundNone

\* C10 witness: buffer 2 was marked ("n", "/p") while buffer 1 carries another
\* instance's tag, and find("n") returned (2, "/p")
C10_Witness ==
    /\ rt.stage = "marked_found"
    /\ rt.buf = 2
    /\ rt.name = "n"
    /\ rt.path = "/p"
    /\ tag[1] = Some(InstanceValue("m", "/q"))
    /\ rt.found = FoundSome(2, "/p")

\* The second half of the round trip happens too: the marked buffer was
\* removed and find returned nothing
C10_WitnessRemoved ==
    /\ rt.stage = "removed_found"
    /\ rt.buf = 2
    /\ tag[1] = Some(InstanceValue("m", "/q"))
    /\ rt.found = FoundNone

(***************************************************************************)
(* C11 - C13: the scan of find_instance_buffer                             *)
(***************************************************************************)

\* find_instance_buffer has just been run by Find; rt holds its result
FindDone == rt.stage \in {"found", "marked_found", "removed_found"}

\* The value is a two-element array of strings
TwoStrings(v) ==
    /\ v.arr
    /\ Len(v.elems) = 2
    /\ v.elems[1].t = "str"
    /\ v.elems[2].t = "str"

\* Buffer b lacks the tag (its read fails with a known "key not found"
\* description) or holds a value that is not a two-element array of strings
UntaggedOrMalformed(b) ==
    /\ b \notin faulty
    /\ tag[b] = None \/ ~TwoStrings(tag[b][1])

\* C11: find(name) over open buffers each of which lacks the tag or holds a
\* value that is not a two-element array of strings returns nothing and does
\* not abort; every buffer is read, in listing order (each one is skipped and
\* the scan continues with the next)
C11_UntaggedAndMalformedSkipped ==
    (FindDone /\ \A b \in OpenBufs : UntaggedOrMalformed(b)) =>
        /\ rt.found = FoundNone
        /\ reg_pc = "ready"
        /\ rt.reads = bufs

\* C11 witness: find over an untagged buffer (newer "key not found" phrasing)
\* followed by a buffer holding a one-element array returned nothing
C11_Witness ==
    /\ FindDone
    /\ bufs = <<1, 2>>
    /\ faulty = {}
    /\ key_not_found = KeyNotFoundNew
    /\ tag[1] = None
    /\ tag[2] = Some(ArrayValue(<<StrVal("n")>>))
    /\ rt.name = "n"
    /\ rt.found = FoundNone
    /\ rt.reads = <<1, 2>>

\* C12: when the read of some open buffer's tag fails with an unrecognised
\* description and no buffer listed before it carries the requested name,
\* find(name) aborts the program
C12_UnrecognisedReadErrorAborts ==
    ( /\ FindDone
      /\ \E b \in OpenBufs :
            /\ b \in faulty
            /\ \A c \in OpenBufs : c < b => (c \in faulty \/ ~Carries(c, rt.name)) ) =>
        /\ rt.found = FoundPanic
        /\ reg_pc = "panicked"

\* C12 witness: buffer 1 holds another instance's tag, the read of buffer 2
\* failed with an unrecognised description, and find("n") aborted at buffer 2
C12_Witness ==
    /\ FindDone
    /\ bufs = <<1, 2>>
    /\ faulty = {2}
    /\ tag[1] = Some(InstanceValue("m", "/q"))
    /\ rt.name = "n"
    /\ rt.found = FoundPanic
    /\ rt.reads = <<1, 2>>
    /\ reg_pc = "panicked"

\* C13: when open buffers carry the requested name, find(name) returns the
\* first of them in listing order with that buffer's own sink path, and reads
\* the tags of the buffers up to it and of no later buffer
C13_FirstMatchWins ==
    \A b \in OpenBufs :
        ( /\ FindDone
          /\ Carries(b, rt.name)
          /\ \A c \in OpenBufs : c < b => ~Carries(c, rt.name)
          /\ \A c \in OpenBufs : c <= b => c \notin faulty ) =>
            /\ rt.found = FoundSome(b, tag[b][1].elems[2].s)
            /\ rt.reads = SelectSeq(bufs, LAMBDA x : x <= b)
            /\ reg_pc = "ready"

\* C13 witness: buffers 1 and 2 both carry the name "n" with different sink
\* paths; find("n") returned buffer 1 with buffer 1's path and read only it
C13_Witness ==
    /\ FindDone
    /\ bufs = <<1, 2>>
    /\ tag[1] = Some(InstanceValue("n", "/p"))
    /\ tag[2] = Some(InstanceValue("n", "/q"))
    /\ rt.name = "n"
    /\ rt.found = FoundSome(1, "/p")
    /\ rt.reads = <<1>>

(***************************************************************************)
(* C14: close_instance_buffer                                              *)
(***************************************************************************)

\* close_instance_buffer has just run; rt.found holds the lookup's outcome
\* and op_err the request that failed after it, if any
CloseDone == rt.stage = "close"

\* C14 as stated: every error arising while close(name) runs (in the lookup,
\* in obtaining the buffer number, in the force-close command) is logged and
\* control returns; the program is never aborted
C14_CloseNeverAborts ==
    CloseDone =>
        /\ reg_pc = "ready"
        /\ (op_err # "" \/ rt.found = FoundPanic) => errlog # <<>>

\* C14 amended: an error in obtaining the buffer number or in the force-close
\* command is logged and control returns; the lookup itself aborts the
\* program exactly when a tag read fails with an unrecognised description
\* before the first match, and otherwise control returns
C14_CloseLogsRequestErrors ==
    CloseDone =>
        /\ op_err # "" => (errlog = <<"close instance">> /\ reg_pc = "ready")
        /\ rt.found # FoundPanic => reg_pc = "ready"
        /\ rt.found = FoundPanic => (reg_pc = "panicked" /\ errlog = <<>>)

\* C14 witness: close("n") found buffer 2, the force-close command failed,
\* the error was logged and the program goes on
C14_Witness ==
    /\ CloseDone
    /\ rt.name = "n"
    /\ rt.found = FoundSome(2, "/p")
    /\ op_err = "command"
    /\ errlog = <<"close instance">>
    /\ 2 \in OpenBufs
    /\ reg_pc = "ready"

(***************************************************************************)
(* C15: focus_instance_buffer on the current buffer                        *)
(***************************************************************************)

\* focus_instance_buffer has just run on a buffer that was already current
FocusedCurrent == focus.target # 0 /\ focus.before_buf = focus.target

\* C15: focus(buffer) on the buffer that is already current issues no
\* window-switch and no buffer-switch request, and leaves the current window
\* and the current buffer as they were
C15_FocusNoOpWhenCurrent ==
    FocusedCurrent =>
        /\ focus.requests = <<>>
        /\ cur_win = focus.before_win
        /\ wins[cur_win] = focus.before_buf

(***************************************************************************)
(* C16 - C18: update_buffer_title                                          *)
(***************************************************************************)

\* update_buffer_title has returned
TitleDone == t_pc = "done"

\* The candidates attempted, in order: 0 is the unsuffixed title, k is "(k)"
AttemptedNrs == [k \in DOMAIN t_trace |-> t_trace[k].nr]

\* Every rename so far failed with the name collision error, or succeeded
NoOtherFailure == \A k \in DOMAIN t_trace : t_trace[k].res # "Other"
AllCollided == \A k \in DOMAIN t_trace : t_trace[k].res = "Collision"

\* The candidates 0, 1, ..., n in increasing order, each once
UpTo(n) == [k \in 1..(n + 1) |-> k - 1]

\* C16: when the title and its suffixes (1)..(n) collide and suffix (n+1),
\* one of the suffixes (1)..(99), is free, the buffer ends up named with
\* suffix (n+1), and the candidates attempted are exactly the title and the
\* suffixes (1)..(n+1), in increasing order and each once
C16_StopsAtFirstFreeSuffix ==
    (TitleDone /\ NoOtherFailure /\ first_free \in 1..LastAttemptNr) =>
        /\ buf_name = first_free
        /\ AttemptedNrs = UpTo(first_free)

\* C17: when every attempt fails with the name collision error, the
\* candidates attempted are the title and the suffixes (1)..(99), in that
\* order and each once: 100 rename attempts
C17_RetryBoundedAt99Suffixes ==
    (TitleDone /\ AllCollided) =>
        /\ AttemptedNrs = UpTo(LastAttemptNr)
        /\ Len(t_trace) = LastAttemptNr + 1

\* C18: a title update that ends without having renamed the buffer has
\* reported an error; a failure other than a collision is the last attempt
C18_FailureAlwaysReported ==
    (TitleDone /\ buf_name = -1) =>
        /\ t_errors >= 1
        /\ \A k \in DOMAIN t_trace : t_trace[k].res = "Other" => k = Len(t_trace)

(***************************************************************************)
(* C19 - C20: connection::close and the child held by the connection       *)
(***************************************************************************)

\* The events of one kind among the external effects so far
Events(e) == SelectSeq(trace, LAMBDA x : x.ev = e)

\* C19: close on a connection holding no child returns without waiting on
\* anything (it is never inside process.wait() and no wait was ever begun);
\* close on a connection holding a child has returned only if the child
\* process has exited, after exactly one wait on it
C19_CloseWaitsOnlyForHeldChild ==
    /\ nvim_proc = "None" =>
          (pc # "waiting" /\ Events("wait") = <<>> /\ Events("wait_returned") = <<>>)
    /\ (pc = "closed" /\ nvim_proc = "Some") =>
          /\ child = "exited"
          /\ Len(Events("wait")) = 1
          /\ trace[Len(trace)] = Ev("wait_returned")

\* C19 witness: close on a connection holding the spawned child has returned,
\* after the child exited
C19_Witness ==
    /\ pc = "closed"
    /\ nvim_proc = "Some"
    /\ child = "exited"
    /\ Len(Events("wait")) = 1
    /\ trace[Len(trace)] = Ev("wait_returned")

\* C19, second case reached too: close on a connection holding no child has
\* returned with nothing waited on
C19_WitnessNoChild ==
    /\ pc = "closed"
    /\ nvim_proc = "None"
    /\ Events("wait") = <<>>

\* C20: the connection returned by open holds a child exactly when no address
\* was supplied, and then this invocation spawned exactly one process, the
\* one the connection holds; an attach-mode invocation spawns nothing, holds
\* nothing and never waits on a process exit
C20_HoldsChildIffSpawned ==
    pc \in Established =>
        /\ nvim_proc = "Some" <=> SpawnMode
        /\ nvim_proc = "Some" <=> Spawns = 1
        /\ SpawnMode => child # "none"
        /\ AttachMode => (Spawns = 0 /\ child = "none" /\ Events("wait") = <<>>)
        /\ Len(Events("wait")) <= Spawns

\* C20 witness: a spawn-mode open returned a connection holding the child it
\* spawned, and close is waiting on that child
C20_Witness ==
    /\ SpawnMode
    /\ pc = "waiting"
    /\ nvim_proc = "Some"
    /\ Spawns = 1
    /\ child = "running"

\* C20, attach mode reached too: open then close returned without a wait
C20_WitnessAttach ==
    /\ AttachMode
    /\ pc = "closed"
    /\ nvim_proc = "None"
    /\ Spawns = 0

(***************************************************************************)
(* C21: redirect protection (checked under SpecConn)                       *)
(***************************************************************************)

\* The position in trace of the first event of a kind, 0 when there is none
FirstPos(e) ==
    IF \E k \in DOMAIN trace : trace[k].ev = e
    THEN CHOOSE k \in DOMAIN trace :
            /\ trace[k].ev = e
            /\ \A j \in 1..(k - 1) : trace[j].ev # e
    ELSE 0

\* C21: in spawn mode with redirect protection enabled, whenever the child
\* has been spawned, a spawn has been tried or a connection attempted, the
\* protection directory was created and then its path printed, once each,
\* before that; and when the directory cannot be created establishment has
\* aborted with no child spawned, no spawn tried and no connection attempted
C21_ProtectionBeforeSpawn ==
    (SpawnMode /\ print_protection) =>
        /\ \A k \in DOMAIN trace :
              trace[k].ev \in {"spawn", "spawn_failed", "connect"} =>
                  /\ FirstPos("mkdir") = 1
                  /\ FirstPos("print") = 2
                  /\ k > 2
        /\ Len(Events("mkdir")) <= 1
        /\ Len(Events("print")) <= 1
        /\ Events("mkdir_failed") # <<>> =>
              /\ trace = <<Ev("mkdir_failed")>>
              /\ pc = "panicked"
              /\ child = "none"
              /\ nvim_proc = "None"

\* C21 witness: with protection enabled the directory was created, its path
\* printed, the child spawned and a connection attempted, in that order
C21_Witness ==
    /\ SpawnMode
    /\ print_protection
    /\ Len(trace) >= 4
    /\ SubSeq(trace, 1, 4) = <<Ev("mkdir"), Ev("print"), Ev("spawn"), Conn("Ok")>>
    /\ child = "running"

\* C21, the failure reached too: the directory could not be created
C21_WitnessMkdirFailed ==
    /\ SpawnMode
    /\ print_protection
    /\ trace = <<Ev("mkdir_failed")>>
    /\ pc = "panicked"

(***************************************************************************)
(* C22: the configuration-file flag (checked under SpecConfig)             *)
(***************************************************************************)

\* The candidate at a slot is supplied: the option or the variable is set
Supplied(slot) ==
    IF slot = "explicit" THEN IsSome(opt_config)
    ELSE IF slot = "xdg" THEN IsSome(xdg_config_home)
    ELSE IsSome(home_dir)

\* The path of a supplied candidate
CandidatePath(slot) ==
    IF slot = "explicit" THEN opt_config[1]
    ELSE IF slot = "xdg" THEN Join(xdg_config_home[1], "page/init.vim")
    ELSE Join(home_dir[1], ".config/page/init.vim")

\* The positions, in the order of consultation, of the supplied candidates
\* that are existing files
ExistingFiles == {k \in DOMAIN Slots : Supplied(Slots[k]) /\ fs[Slots[k]] = "file"}

\* C22: for every combination of which candidates are supplied and which
\* exist, the argument vector carries "-u" followed by the path of the first
\* candidate, in the order explicit, config-home, home, that is an existing
\* file, and carries no "-u" flag when no candidate is an existing file
C22_FirstExistingFileIsPassed ==
    cfg_pc = "spawned" =>
        IF ExistingFiles # {}
        THEN LET k == CHOOSE x \in ExistingFiles : \A y \in ExistingFiles : x <= y
             IN  nvim_args = BaseArgs
                             \o <<Tok("-u"), PathTok(CandidatePath(Slots[k]), 0)>>
                             \o CustomArgs(opt_arguments)
        ELSE nvim_args = BaseArgs \o CustomArgs(opt_arguments)

(***************************************************************************)
(* C24: a fetch-lines request with an unusable count (under SpecBridge)    *)
(***************************************************************************)

\* The second argument is present but is not a non-negative integer
HasBadCount(a) == Len(a) >= 2 /\ ~HasCount(a)

\* C24: a fetch-lines notification with the receiver's own id whose second
\* argument is present but not a non-negative integer is handed to the
\* channel as the generic fetch request, exactly one event: it is neither
\* dropped nor, while the receiver is alive, an error
C24_BadCountIsGenericFetch ==
    [][ ( /\ NotifyStep
          /\ notification' = "page_fetch_lines"
          /\ FirstArgIsOwnId(args')
          /\ HasBadCount(args') ) =>
            /\ accepted' = Append(accepted, FetchPart)
            /\ rx_alive =>
                  /\ InChannel' = Append(InChannel, FetchPart)
                  /\ outcome' \in {"sent", "blocked"}
                  /\ listener' # "panicked"
      ]_vars

\* C24 witness: a fetch-lines notification with count -1 was handled after two
\* regular requests and queued as the generic fetch request
C24_Witness ==
    /\ notification = "page_fetch_lines"
    /\ args = <<StrVal(page_id), IntVal(-1)>>
    /\ outcome = "sent"
    /\ queue = <<FetchLines(1), FetchLines(2), FetchPart>>

\* C24, a string as count reached too
C24_WitnessString ==
    /\ notification = "page_fetch_lines"
    /\ args = <<StrVal(page_id), StrVal("3")>>
    /\ outcome = "sent"
    /\ queue = <<FetchPart>>

(***************************************************************************)
(* C23: backpressure loses nothing (checked under SpecBridgeReceiving)     *)
(***************************************************************************)

\* The n-th accepted event has been received, as the n-th event received
ReceivedNth(n) == Len(received) >= n /\ received[n] = accepted[n]

\* C23: while the main thread keeps receiving, every accepted notification
\* is eventually received, at its own position in the order of acceptance
\* and so exactly once; this includes every notification whose send found
\* the buffer full and had to wait; and at no time has the consumer received
\* anything but the accepted events, each once, in order
C23_BackpressureLosesNothing ==
    /\ \A n \in 1..MaxNotifs : (Len(accepted) >= n) ~> ReceivedNth(n)
    /\ \A n \in 1..MaxNotifs : (n \in blocked_at) ~> ReceivedNth(n)
    /\ [](received = SubSeq(accepted, 1, Len(received)))

\* C23 witness: the 17th notification was accepted while the buffer held 16
\* events, its send waited, and the consumer has received it as the 17th event
C23_Witness ==
    /\ 17 \in blocked_at
    /\ Len(received) >= 17
    /\ received[17] = FetchLines(17)
    /\ accepted[17] = FetchLines(17)

====
